---- MODULE Spec2Model ----
(***************************************************************************)
(* A model of the liver atlas viewer: the orientation table               *)
(* (transforms.py), the slice engine (slice_utils.py, callbacks.py, as    *)
(* wired together by main.py) and the geometric similarity comparator     *)
(* (geometry_utils.py).                                                    *)
(*                                                                         *)
(* Conventions of the model                                                *)
(*  - A vtkMatrix4x4 / the matrix of a vtkTransform is a 4x4 tuple of      *)
(*    tuples of integers.  A vtkTransform is in its default PreMultiply    *)
(*    mode everywhere in the program, so every operation A on a transform  *)
(*    with current matrix M leaves M * A.                                  *)
(*  - Rotations are by multiples of 90 degrees only, and are modelled by   *)
(*    their exact matrices.                                                *)
(*  - Lengths of the volume (spacing, physical coordinates) are integers   *)
(*    in a fixed small unit; the products index * spacing are then exact.  *)
(*  - A slider value is a float; the model keeps it in halves, so that     *)
(*    int(value) is a real truncation.                                     *)
(*  - The comparator computes in floats: every operation rounds to the     *)
(*    nearest float, as in Python, at a reduced precision.                 *)
(***************************************************************************)
EXTENDS Integers, Sequences, FiniteSets, TLC

VARIABLES
    \* ---- orientation table (transforms.py) ----
    transform,   \* SliceOrder.transform: code -> matrix of the stored vtkTransform
    got,         \* outcome of the last SliceOrder.get call
    pt,          \* the point the returned transforms are applied to
    \* ---- slice viewer (main.py, slice_utils.py, callbacks.py) ----
    volume,      \* what nrrd_reader.GetOutput() holds: loaded, dims, spacing
    hasLabels,   \* label_reader is not None
    slider,      \* value of the three slice sliders, in halves
    xform,       \* slice_transforms[P]: the matrix of the plane's vtkTransform
    gray,        \* the reslice feeding the grayscale image actor of each plane
    labels,      \* the reslice feeding the label image actor (<<>>: no actor)
    renderer,    \* the image actors main added to the renderer
    repeated,    \* history: the last slider event asked for the slice already shown
    \* ---- similarity comparator (geometry_utils.py) ----
    sig1, sig2,  \* the two signatures compared last
    threshold,   \* the threshold of that comparison
    similar,     \* what are_polydata_similar returned, in a 1-tuple (<<>>: not called yet)
    \* ---- reconstruction of the label surfaces (segmentation_utils.py) ----
    image_data,             \* label_reader's output: scalar_max and the surface of each label
    similarity_threshold,   \* the threshold the reconstruction is called with
    run,                    \* how many reconstructions have run (names their actors)
    visited,                \* history: the labels the last run's loop visited, in order
    processed_signatures,   \* the last run's list of <<label, signature>>
    segmentation_actors,    \* the list of actors the last run returned
    \* ---- the key handler (callbacks.py: SliderToggleCallback) ----
    mode_state,             \* the display mode, 0..3
    sliders,                \* name -> [enabled, value] of the sliders main made
    mesh_actors_dict,       \* tissue -> [visibility, representation, opacity]
    label_actors,           \* plane -> visibility of the label slice actors
    segmentation_sliders,   \* label -> [enabled, property], the sliders of the reconstructed surfaces
    params,                 \* main's params: the opacity configured for each tissue
    \* ---- the lookup of a tissue's VTK file (file_utils.py) ----
    tissue_name,            \* the name resolve_vtk_file is called with
    vtk_map,                \* the dictionary {stem: path}, as the list of its items in order
    resolved                \* the outcome of resolve_vtk_file, in a 1-tuple (<<>>: not called yet)

vars == <<transform, got, pt, volume, hasLabels, slider, xform, gray, labels,
          renderer, repeated, sig1, sig2, threshold, similar,
          image_data, similarity_threshold, run, visited, processed_signatures,
          segmentation_actors,
          mode_state, sliders, mesh_actors_dict, label_actors, segmentation_sliders,
          params, tissue_name, vtk_map, resolved>>

orderVars == <<transform, got, pt>>
viewVars  == <<volume, hasLabels, slider, xform, gray, labels, renderer, repeated>>
simVars   == <<sig1, sig2, threshold, similar>>
segVars   == <<image_data, similarity_threshold, run, visited, processed_signatures,
               segmentation_actors>>
fileVars  == <<tissue_name, vtk_map, resolved>>
keyVars   == <<mode_state, sliders, mesh_actors_dict, label_actors, segmentation_sliders,
               params>>
viewRest  == <<volume, hasLabels, slider, xform, gray, labels, repeated>>

(***************************************************************************)
(* Bounds of the model                                                     *)
(***************************************************************************)
MaxCoord == 1        \* test points have coordinates in -MaxCoord..MaxCoord
MaxDim == 2          \* sample volumes have dimensions <<d, d + 1, d + 2>>, d in 1..MaxDim
MaxSpacing == 2      \* and spacings <<s + 1, s + 2, s + 3>>, s in 1..MaxSpacing
MaxCount == 20       \* sample surfaces have MaxCount - 1 or MaxCount points (or none)
BoxSize == 28        \* the longest edge of the sample bounding boxes
BoxSpread == 2       \* their x and y edges are BoxSize - BoxSpread + 1 .. BoxSize
MaxOffset == 1       \* sample boxes are shifted along x by 0..MaxOffset
Precision == 6       \* binary digits of a float's mantissa (53 in a Python float)
MaxLabel == 3        \* sample label volumes have scalar_max < MaxLabel + 1
MaxRuns == 2         \* reconstructions in one behaviour

(***************************************************************************)
(* 4x4 matrices and the vtkTransform operations the program uses           *)
(***************************************************************************)
Idx == 1..4

\* F applied to the value of e, e being evaluated once
Let(e, F(_)) == CHOOSE r \in {F(v) : v \in {e}} : TRUE

\* The matrix product A * B (each argument is evaluated once)
MatMul(A, B) ==
    LET Product(a, b) ==
            [i \in Idx |-> [j \in Idx |->
                a[i][1] * b[1][j] + a[i][2] * b[2][j] + a[i][3] * b[3][j] + a[i][4] * b[4][j]]]
    IN  CHOOSE m \in {Product(a, b) : a \in {A}, b \in {B}} : TRUE

IdentityMat == [i \in Idx |-> [j \in Idx |-> IF i = j THEN 1 ELSE 0]]

\* vtkMatrix4x4.Zero()
Zero == [i \in Idx |-> [j \in Idx |-> 0]]

\* vtkMatrix4x4.SetElement(row, col, value), rows and columns counted from 0
SetElement(m, row, col, value) == [m EXCEPT ![row + 1][col + 1] = value]

ScaleMat(x, y, z) ==
    << <<x, 0, 0, 0>>, <<0, y, 0, 0>>, <<0, 0, z, 0>>, <<0, 0, 0, 1>> >>

TranslateMat(x, y, z) ==
    << <<1, 0, 0, x>>, <<0, 1, 0, y>>, <<0, 0, 1, z>>, <<0, 0, 0, 1>> >>

\* cosine and sine of a multiple of 90 degrees
Cos90(deg) == CASE deg % 360 = 0 -> 1
                [] deg % 360 = 180 -> -1
                [] OTHER -> 0
Sin90(deg) == CASE deg % 360 = 90 -> 1
                [] deg % 360 = 270 -> -1
                [] OTHER -> 0

RotXMat(deg) ==
    << <<1, 0, 0, 0>>,
       <<0, Cos90(deg), -Sin90(deg), 0>>,
       <<0, Sin90(deg), Cos90(deg), 0>>,
       <<0, 0, 0, 1>> >>

RotYMat(deg) ==
    << <<Cos90(deg), 0, Sin90(deg), 0>>,
       <<0, 1, 0, 0>>,
       <<-Sin90(deg), 0, Cos90(deg), 0>>,
       <<0, 0, 0, 1>> >>

RotZMat(deg) ==
    << <<Cos90(deg), -Sin90(deg), 0, 0>>,
       <<Sin90(deg), Cos90(deg), 0, 0>>,
       <<0, 0, 1, 0>>,
       <<0, 0, 0, 1>> >>

\* vtkTransform(): a new transform holds the identity
NewTransform == IdentityMat

\* vtkTransform.Identity()
Identity(t) == IdentityMat

\* vtkTransform.SetMatrix(m): the current matrix becomes m
SetMatrix(t, m) == m

\* vtkTransform.Concatenate(m) in PreMultiply mode: M = M * m
Concatenate(t, m) == MatMul(t, m)

\* vtkTransform.Scale / Translate / RotateX / RotateY / RotateZ
Scale(t, x, y, z) == Concatenate(t, ScaleMat(x, y, z))
Translate(t, x, y, z) == Concatenate(t, TranslateMat(x, y, z))
RotateX(t, deg) == Concatenate(t, RotXMat(deg))
RotateY(t, deg) == Concatenate(t, RotYMat(deg))
RotateZ(t, deg) == Concatenate(t, RotZMat(deg))

\* Applying a transform to a point <<x, y, z>> (w = 1)
TransformPoint(m, p) ==
    LET Image(a, q) ==
            [i \in 1..3 |-> a[i][1] * q[1] + a[i][2] * q[2] + a[i][3] * q[3] + a[i][4]]
    IN  CHOOSE r \in {Image(a, q) : a \in {m}, q \in {p}} : TRUE

(***************************************************************************)
(* transforms.py: SliceOrder                                               *)
(***************************************************************************)
si_mat ==
    SetElement(SetElement(SetElement(SetElement(Zero, 0, 0, 1), 1, 2, 1), 2, 1, -1), 3, 3, 1)

is_mat ==
    SetElement(SetElement(SetElement(SetElement(Zero, 0, 0, 1), 1, 2, -1), 2, 1, -1), 3, 3, 1)

lr_mat ==
    SetElement(SetElement(SetElement(SetElement(Zero, 0, 2, -1), 1, 1, -1), 2, 0, 1), 3, 3, 1)

rl_mat ==
    SetElement(SetElement(SetElement(SetElement(Zero, 0, 2, 1), 1, 1, -1), 2, 0, 1), 3, 3, 1)

hf_mat ==
    SetElement(SetElement(SetElement(SetElement(Zero, 0, 0, -1), 1, 1, 1), 2, 2, -1), 3, 3, 1)

\* The dictionary with a sixteenth entry, hfhf
SliceOrderSixteen ==
    [ si   |-> SetMatrix(NewTransform, si_mat),
      is   |-> SetMatrix(NewTransform, is_mat),
      ap   |-> Scale(NewTransform, 1, -1, 1),
      pa   |-> Scale(NewTransform, 1, -1, -1),
      lr   |-> SetMatrix(NewTransform, lr_mat),
      rl   |-> SetMatrix(NewTransform, rl_mat),
      hf   |-> SetMatrix(NewTransform, hf_mat),
      hfsi |-> Concatenate(SetMatrix(NewTransform, hf_mat), si_mat),
      hfis |-> Concatenate(SetMatrix(NewTransform, hf_mat), is_mat),
      hfap |-> Scale(SetMatrix(NewTransform, hf_mat), 1, -1, 1),
      hfpa |-> Scale(SetMatrix(NewTransform, hf_mat), 1, -1, -1),
      hflr |-> Concatenate(SetMatrix(NewTransform, hf_mat), lr_mat),
      hfrl |-> Concatenate(SetMatrix(NewTransform, hf_mat), rl_mat),
      hfhf |-> Concatenate(SetMatrix(NewTransform, hf_mat), hf_mat),
      I    |-> NewTransform,
      Z    |-> Scale(NewTransform, 0, 0, 0) ]

\* SliceOrder.__init__: the dictionary self.transform
SliceOrderInit ==
    [ si   |-> SetMatrix(NewTransform, si_mat),
      is   |-> SetMatrix(NewTransform, is_mat),
      ap   |-> Scale(NewTransform, 1, -1, 1),
      pa   |-> Scale(NewTransform, 1, -1, -1),
      lr   |-> SetMatrix(NewTransform, lr_mat),
      rl   |-> SetMatrix(NewTransform, rl_mat),
      hf   |-> SetMatrix(NewTransform, hf_mat),
      hfsi |-> Concatenate(SetMatrix(NewTransform, hf_mat), si_mat),
      hfis |-> Concatenate(SetMatrix(NewTransform, hf_mat), is_mat),
      hfap |-> Scale(SetMatrix(NewTransform, hf_mat), 1, -1, 1),
      hfpa |-> Scale(SetMatrix(NewTransform, hf_mat), 1, -1, -1),
      hflr |-> Concatenate(SetMatrix(NewTransform, hf_mat), lr_mat),
      hfrl |-> Concatenate(SetMatrix(NewTransform, hf_mat), rl_mat),
      I    |-> NewTransform,
      Z    |-> Scale(NewTransform, 0, 0, 0) ]

\* The outcome of a call: an exception, or the returned value in a 1-tuple
Raised(order) == [called |-> TRUE, order |-> order, raised |-> TRUE, returned |-> <<>>]
Returned(order, value) ==
    [called |-> TRUE, order |-> order, raised |-> FALSE, returned |-> <<value>>]
NotCalled == [called |-> FALSE, order |-> "", raised |-> FALSE, returned |-> <<>>]

\* A get that falls back to the identity transform for an unknown code
getWithFallback(table, order) ==
    IF order \in DOMAIN table THEN Returned(order, table[order])
    ELSE Returned(order, NewTransform)

\* SliceOrder.get(order)
get(table, order) ==
    IF order \in DOMAIN table THEN Returned(order, table[order])
    ELSE Raised(order)

\* The codes a caller may ask for: the codes of the table and some that are not
BaseCodes == {"si", "is", "ap", "pa", "lr", "rl"}
CompositeCodes == {"hfsi", "hfis", "hfap", "hfpa", "hflr", "hfrl"}
TableCodes == BaseCodes \cup CompositeCodes \cup {"hf", "I", "Z"}
OtherCodes == {"unknown", "", "SI", "hfhf", "i"}
Orders == TableCodes \cup OtherCodes

Coords == (-MaxCoord)..MaxCoord
Points == {<<x, y, z>> : x \in Coords, y \in Coords, z \in Coords}

\* One use of the table: look a code up; the transform that comes back is
\* applied to the points of a surface (by vtkTransformPolyDataFilter).
Get(order) ==
    /\ got' = get(transform, order)
    /\ UNCHANGED <<transform, pt>>

\* main.py, step 8b, for one tissue: a new SliceOrder is built, get looks the
\* tissue's code up, and Scale(1, -1, -1) is called on what get returned.
\* get returns the object the dictionary holds, so the Scale changes the
\* dictionary's transform as well; an unknown code raises before the Scale.
LoadMesh(order) ==
    /\ \E result \in {get(SliceOrderInit, order)} :
        IF result.raised
        THEN /\ transform' = SliceOrderInit
             /\ got' = result
        ELSE \E trans \in {Scale(result.returned[1], 1, -1, -1)} :
             /\ transform' = [SliceOrderInit EXCEPT ![order] = trans]
             /\ got' = Returned(order, trans)
    /\ UNCHANGED pt

(***************************************************************************)
(* The volume, and the slice sliders of main.py                            *)
(***************************************************************************)
Planes == {"XY", "XZ", "YZ"}

\* The output of a reader that produced nothing: an empty vtkImageData
EmptyVolume == [loaded |-> FALSE, dims |-> <<0, 0, 0>>, spacing |-> <<1, 1, 1>>]

\* Sample volumes: the three dimensions differ, and so do the three spacings
SampleVolume(d, s) ==
    [loaded |-> TRUE, dims |-> <<d, d + 1, d + 2>>, spacing |-> <<s + 1, s + 2, s + 3>>]
LoadedVolumes ==
    {SampleVolume(d, 1) : d \in 1..MaxDim} \cup {SampleVolume(1, s) : s \in 1..MaxSpacing}
Volumes == LoadedVolumes \cup {EmptyVolume}

\* int(x) of a float kept in halves: truncation toward zero
IntOf(h) == IF h >= 0 THEN h \div 2 ELSE -((-h) \div 2)
Half(n) == 2 * n

\* main.py: the first slice of the axial plane
InitialZSlice == -50

\* main.py: the slice numbers the three planes are created with
InitialSlice(dims) ==
    [XY |-> InitialZSlice, XZ |-> dims[2] \div 2, YZ |-> (-dims[1]) \div 2]

\* main.py: (min_val, max_val) given to make_slice_slider for each plane
SliderArgs(dims) ==
    [XY |-> <<-dims[3], dims[3] \div 2>>,
     XZ |-> <<0, dims[2]>>,
     YZ |-> <<-dims[1], 0>>]

\* vtkSliderRepresentation(): a new representation has range 0..1 and value 0
NewSlider == [min |-> 0, max |-> 1, value |-> 0]

Clamp(v, lo, hi) == IF v < lo THEN lo ELSE IF v > hi THEN hi ELSE v

\* vtkSliderRepresentation.SetMinimumValue: a minimum not below the maximum
\* pushes the maximum up; the value stays inside the range
SetMinimumValue(s, v) ==
    IF v = s.min THEN s
    ELSE LET hi == IF v >= s.max THEN v + 1 ELSE s.max
         IN  [min |-> v, max |-> hi, value |-> Clamp(s.value, v, hi)]

\* vtkSliderRepresentation.SetMaximumValue: a maximum not above the minimum
\* pushes the minimum down
SetMaximumValue(s, v) ==
    IF v = s.max THEN s
    ELSE LET lo == IF v <= s.min THEN v - 1 ELSE s.min
         IN  [min |-> lo, max |-> v, value |-> Clamp(s.value, lo, v)]

\* vtkSliderRepresentation.SetValue: the value is clamped to the range
SetValue(s, v) == [s EXCEPT !.value = Clamp(v, s.min, s.max)]

\* make_slice_slider(properties, min_val, max_val, initial_val, title)
make_slice_slider(min_val, max_val, initial_val) ==
    SetValue(SetMaximumValue(SetMinimumValue(NewSlider, min_val), max_val), initial_val)

\* main.py: the slider of plane P as main makes it
SliderOf(dims, P) ==
    make_slice_slider(SliderArgs(dims)[P][1], SliderArgs(dims)[P][2], InitialSlice(dims)[P])

\* The values (in halves) the user can drag the slider of plane P to
SliderValues(dims, P) ==
    Half(SliderOf(dims, P).min)..Half(SliderOf(dims, P).max)

(***************************************************************************)
(* slice_utils.py and callbacks.py: the slice engine                       *)
(***************************************************************************)
\* vtkImageReslice(): axes and origin of a new reslice filter
NewReslice(input) ==
    [input |-> input, axes |-> <<1, 0, 0, 0, 1, 0, 0, 0, 1>>, origin |-> <<0, 0, 0>>,
     interpolation |-> "default"]

SetResliceAxesDirectionCosines(r, cosines) == [r EXCEPT !.axes = cosines]
SetResliceAxesOrigin(r, x, y, z) == [r EXCEPT !.origin = <<x, y, z>>]
SetInterpolationModeToNearestNeighbor(r) == [r EXCEPT !.interpolation = "nearest"]

\* actual_slice without the negation of the coronal slice number
actual_slice_same_sign(orientation, value, dims) ==
    CASE orientation = "XY" -> value + dims[3] \div 2
      [] orientation = "XZ" -> value + dims[2] \div 2
      [] orientation = "YZ" -> value + dims[1] \div 2

\* actual_slice with every plane offset by the depth of the volume
actual_slice_z_offset(orientation, value, dims) ==
    CASE orientation = "XY" -> value + dims[3] \div 2
      [] orientation = "XZ" -> (-value) + dims[3] \div 2
      [] orientation = "YZ" -> value + dims[3] \div 2

\* actual_slice: the slice number, relative to the centre, as an absolute index
actual_slice(orientation, value, dims) ==
    CASE orientation = "XY" -> value + dims[3] \div 2
      [] orientation = "XZ" -> (-value) + dims[2] \div 2
      [] orientation = "YZ" -> value + dims[1] \div 2

\* z_pos, y_pos, x_pos: the index as a physical coordinate
slice_pos(orientation, index, spacing) ==
    CASE orientation = "XY" -> index * spacing[3]
      [] orientation = "XZ" -> index * spacing[2]
      [] orientation = "YZ" -> index * spacing[1]

\* place with the two rotations of a plane in the other order
place_rotations_swapped(orientation, t, pos) ==
    CASE orientation = "XY" -> Translate(t, 0, 0, -pos)
      [] orientation = "XZ" -> Translate(RotateX(RotateZ(t, 180), 90), 0, 0, -pos)
      [] orientation = "YZ" -> Translate(RotateY(RotateZ(t, 90), -90), 0, 0, -pos)

\* The rotations and the translation each plane adds to the transform
place(orientation, t, pos) ==
    CASE orientation = "XY" -> Translate(t, 0, 0, -pos)
      [] orientation = "XZ" -> Translate(RotateZ(RotateX(t, 90), 180), 0, 0, -pos)
      [] orientation = "YZ" -> Translate(RotateZ(RotateY(t, -90), 90), 0, 0, -pos)

\* The direction cosines of each plane
direction_cosines(orientation) ==
    CASE orientation = "XY" -> <<1, 0, 0, 0, 1, 0, 0, 0, 1>>
      [] orientation = "XZ" -> <<-1, 0, 0, 0, 0, 1, 0, 1, 0>>
      [] orientation = "YZ" -> <<0, 1, 0, 0, 0, 1, 1, 0, 0>>

\* The reslice origin of each plane
axes_origin(orientation, pos) ==
    CASE orientation = "XY" -> <<0, 0, pos>>
      [] orientation = "XZ" -> <<0, pos, 0>>
      [] orientation = "YZ" -> <<pos, 0, 0>>

\* Step 5 of both engines: the branch on the orientation.  t is the transform
\* after the base Scale, r the grayscale reslice, rl the label reslice in a
\* tuple (<<>> when there is no label reader).  An orientation that is none of
\* the three takes no branch.
SetPlane(orientation, value, dims, spacing, t, r, rl) ==
    IF orientation \in {"XY", "XZ", "YZ"}
    THEN LET pos == slice_pos(orientation, actual_slice(orientation, value, dims), spacing)
             origin == axes_origin(orientation, pos)
             Set(reslice) ==
                SetResliceAxesOrigin(
                    SetResliceAxesDirectionCosines(reslice, direction_cosines(orientation)),
                    origin[1], origin[2], origin[3])
         IN  [transform |-> place(orientation, t, pos),
              reslice |-> Set(r),
              reslice_labels |-> [i \in DOMAIN rl |-> Set(rl[i])]]
    ELSE [transform |-> t, reslice |-> r, reslice_labels |-> rl]

\* The two reslice filters both engines start from (steps 2 and 3)
NewLabelReslice(label_reader) ==
    IF label_reader THEN <<SetInterpolationModeToNearestNeighbor(NewReslice("labels"))>>
    ELSE <<>>

\* slice_utils.py, step 5: the branch of create_slice_plane on the orientation,
\* as slice_utils.py writes it.  An orientation that is none of the three
\* takes no branch.
CreatePlane(orientation, slice_num, dims, spacing, t, r, rl) ==
    LET Set(reslice, cosines, x, y, z) ==
            SetResliceAxesOrigin(SetResliceAxesDirectionCosines(reslice, cosines), x, y, z)
        XY(z_pos) ==
            [transform |-> Translate(t, 0, 0, -z_pos),
             reslice |-> Set(r, <<1, 0, 0, 0, 1, 0, 0, 0, 1>>, 0, 0, z_pos),
             reslice_labels |->
                [i \in DOMAIN rl |-> Set(rl[i], <<1, 0, 0, 0, 1, 0, 0, 0, 1>>, 0, 0, z_pos)]]
        XZ(y_pos) ==
            [transform |-> Translate(RotateZ(RotateX(t, 90), 180), 0, 0, -y_pos),
             reslice |-> Set(r, <<-1, 0, 0, 0, 0, 1, 0, 1, 0>>, 0, y_pos, 0),
             reslice_labels |->
                [i \in DOMAIN rl |-> Set(rl[i], <<-1, 0, 0, 0, 0, 1, 0, 1, 0>>, 0, y_pos, 0)]]
        YZ(x_pos) ==
            [transform |-> Translate(RotateZ(RotateY(t, -90), 90), 0, 0, -x_pos),
             reslice |-> Set(r, <<0, 1, 0, 0, 0, 1, 1, 0, 0>>, x_pos, 0, 0),
             reslice_labels |->
                [i \in DOMAIN rl |-> Set(rl[i], <<0, 1, 0, 0, 0, 1, 1, 0, 0>>, x_pos, 0, 0)]]
    IN  CASE orientation = "XY" -> XY((slice_num + dims[3] \div 2) * spacing[3])
          [] orientation = "XZ" -> XZ(((-slice_num) + dims[2] \div 2) * spacing[2])
          [] orientation = "YZ" -> YZ((slice_num + dims[1] \div 2) * spacing[1])
          [] OTHER -> [transform |-> t, reslice |-> r, reslice_labels |-> rl]

\* create_slice_plane with a transform that starts from the identity
create_slice_plane_unscaled(vol, label_reader, orientation, slice_num) ==
    CreatePlane(orientation, slice_num, vol.dims, vol.spacing,
                NewTransform,
                NewReslice("gray"), NewLabelReslice(label_reader))

\* create_slice_plane(reader, label_reader, orientation, slice_num, lut):
\* the transform, the reslice of actor_gray and the reslice of actor_labels
create_slice_plane(vol, label_reader, orientation, slice_num) ==
    CreatePlane(orientation, slice_num, vol.dims, vol.spacing,
                Scale(NewTransform, 1, -1, -1),
                NewReslice("gray"), NewLabelReslice(label_reader))

\* SlicePlaneCallback.__call__ without the reset of the stored transform
CallbackNoReset(self, sliderValue) ==
    Let(SetPlane(self.orientation, IntOf(sliderValue), self.dims, self.spacing,
                 Scale(self.transform, 1, -1, -1),
                 NewReslice("gray"), NewLabelReslice(self.label_reader)),
        LAMBDA set :
            [transform |-> set.transform,
             gray |-> set.reslice,
             labels |-> IF self.image_actor_labels /\ set.reslice_labels /= <<>>
                        THEN set.reslice_labels ELSE self.labels])

\* SlicePlaneCallback.__call__ that leaves the label actor on its old reslice
CallbackGrayOnly(self, sliderValue) ==
    Let(SetPlane(self.orientation, IntOf(sliderValue), self.dims, self.spacing,
                 Scale(Identity(self.transform), 1, -1, -1),
                 NewReslice("gray"), NewLabelReslice(self.label_reader)),
        LAMBDA set :
            [transform |-> set.transform,
             gray |-> set.reslice,
             labels |-> self.labels])

\* SlicePlaneCallback.__call__(caller, ev): self holds what __init__ stored and
\* the reslice the label actor is connected to; the result is the new state of
\* the stored transform and of the two actors' inputs.
SlicePlaneCallback(self, sliderValue) ==
    Let(SetPlane(self.orientation, IntOf(sliderValue), self.dims, self.spacing,
                 Scale(Identity(self.transform), 1, -1, -1),
                 NewReslice("gray"), NewLabelReslice(self.label_reader)),
        LAMBDA set :
            [transform |-> set.transform,
             gray |-> set.reslice,
             labels |-> IF self.image_actor_labels /\ set.reslice_labels /= <<>>
                        THEN set.reslice_labels ELSE self.labels])

\* The callback object of plane P in the current state
CallbackOf(P) ==
    [orientation |-> P, transform |-> xform[P], dims |-> volume.dims,
     spacing |-> volume.spacing, label_reader |-> hasLabels,
     image_actor_labels |-> labels[P] /= <<>>, labels |-> labels[P]]

\* main.py, step 7: the state once the three planes are created, their actors
\* added to the renderer, the sliders made and each callback called once.
ViewInit ==
    \E vol \in Volumes, lab \in BOOLEAN :
        LET created == [P \in Planes |->
                            create_slice_plane(vol, lab, P, InitialSlice(vol.dims)[P])]
            sliderValues == [P \in Planes |-> Half(SliderOf(vol.dims, P).value)]
            called  == [P \in Planes |->
                            SlicePlaneCallback(
                                [orientation |-> P, transform |-> created[P].transform,
                                 dims |-> vol.dims, spacing |-> vol.spacing,
                                 label_reader |-> lab,
                                 image_actor_labels |-> created[P].reslice_labels /= <<>>,
                                 labels |-> created[P].reslice_labels],
                                sliderValues[P])]
        IN  /\ volume = vol
            /\ hasLabels = lab
            /\ slider = sliderValues
            /\ xform = [P \in Planes |-> called[P].transform]
            /\ gray = [P \in Planes |-> called[P].gray]
            /\ labels = [P \in Planes |-> called[P].labels]
            /\ renderer = {[kind |-> "gray", plane |-> P] : P \in Planes} \cup
                          {[kind |-> "labels", plane |-> P] :
                              P \in {Q \in Planes : lab /\ created[Q].reslice_labels /= <<>>}}
            /\ repeated = FALSE

\* The user drags the slider of plane P to the value h: InteractionEvent
SliderEvent(P, h) ==
    \E called \in {SlicePlaneCallback(CallbackOf(P), h)} :
        /\ slider' = [slider EXCEPT ![P] = h]
        /\ xform' = [xform EXCEPT ![P] = called.transform]
        /\ gray' = [gray EXCEPT ![P] = called.gray]
        /\ labels' = [labels EXCEPT ![P] = called.labels]
        /\ repeated' = (IntOf(h) = IntOf(slider[P]))
        /\ UNCHANGED <<volume, hasLabels, renderer>>

(***************************************************************************)
(* Python floats: binary floating point, round to nearest, ties to even.   *)
(* A float is <<m, e>>, the number m * 2^e, with m = 0 (and e = 0) or       *)
(* 2^(Precision-1) <= |m| < 2^Precision.  The exponent is unbounded.        *)
(***************************************************************************)
Min(a, b) == IF a <= b THEN a ELSE b
Max(a, b) == IF a >= b THEN a ELSE b
Abs(a) == IF a >= 0 THEN a ELSE -a
Sign(a) == IF a >= 0 THEN 1 ELSE -1

RECURSIVE Pow2(_)
Pow2(n) == IF n = 0 THEN 1 ELSE 2 * Pow2(n - 1)

\* The number of binary digits of n >= 0
RECURSIVE BitLength(_)
BitLength(n) == IF n = 0 THEN 0 ELSE 1 + BitLength(n \div 2)

\* The float nearest to the integer multiple m * 2^e (ties to even)
Normalize(m, e) ==
    LET Rounded(a, len) ==
            IF len <= Precision
            THEN <<Sign(m) * a * Pow2(Precision - len), e - (Precision - len)>>
            ELSE LET sh == len - Precision
                     Up(q, r, half) ==
                         IF r > half \/ (r = half /\ q % 2 = 1) THEN q + 1 ELSE q
                     Carried(u) ==
                         IF u = Pow2(Precision)
                         THEN <<Sign(m) * Pow2(Precision - 1), e + sh + 1>>
                         ELSE <<Sign(m) * u, e + sh>>
                 IN  CHOOSE f \in {Carried(u) :
                            u \in {Up(a \div Pow2(sh), a % Pow2(sh), Pow2(sh - 1))}} : TRUE
    IN  IF m = 0 THEN <<0, 0>>
        ELSE CHOOSE f \in {Rounded(a, BitLength(a)) : a \in {Abs(m)}} : TRUE

\* The float nearest to (n / d) * 2^e, d /= 0: the quotient is taken with two
\* digits more than the precision and a last digit that says whether anything
\* was left over
RoundQuotient(n, d, e) ==
    LET Quotient(a, b, sh) ==
            Normalize(Sign(n) * Sign(d) *
                        (2 * ((a * Pow2(sh)) \div b) + (IF (a * Pow2(sh)) % b = 0 THEN 0 ELSE 1)),
                      e - sh - 1)
    IN  IF n = 0 THEN <<0, 0>>
        ELSE CHOOSE f \in {Quotient(a, b, Max(0, Precision + 2 + BitLength(b) - BitLength(a))) :
                    a \in {Abs(n)}, b \in {Abs(d)}} : TRUE

\* float(n) for an int n, and a decimal literal n / d
FromInt(n) == Normalize(n, 0)
Literal(n, d) == RoundQuotient(n, d, 0)

\* x + y, x - y, x * y, x / y, abs(x) (each argument is evaluated once)
FAdd(x, y) ==
    LET Sum(a, b) ==
            IF a[1] = 0 THEN b
            ELSE IF b[1] = 0 THEN a
            ELSE LET e == Min(a[2], b[2])
                 IN  Normalize(a[1] * Pow2(a[2] - e) + b[1] * Pow2(b[2] - e), e)
    IN  CHOOSE f \in {Sum(a, b) : a \in {x}, b \in {y}} : TRUE

FNeg(x) == CHOOSE f \in {<<-a[1], a[2]>> : a \in {x}} : TRUE
FSub(x, y) == FAdd(x, FNeg(y))
FMul(x, y) == CHOOSE f \in {Normalize(a[1] * b[1], a[2] + b[2]) : a \in {x}, b \in {y}} : TRUE
FDiv(x, y) ==
    CHOOSE f \in {RoundQuotient(a[1], b[1], a[2] - b[2]) : a \in {x}, b \in {y}} : TRUE
FAbs(x) == CHOOSE f \in {<<Abs(a[1]), a[2]>> : a \in {x}} : TRUE

\* x >= y, x > y
FGe(x, y) ==
    \E a \in {x}, b \in {y} :
        LET e == Min(a[2], b[2])
        IN  a[1] * Pow2(a[2] - e) >= b[1] * Pow2(b[2] - e)
FGt(x, y) == ~FGe(y, x)

\* min(x, y) and max(x, y) of Python: the first argument unless the second is
\* strictly smaller (larger)
FMin(x, y) == CHOOSE f \in {IF FGt(a, b) THEN b ELSE a : a \in {x}, b \in {y}} : TRUE
FMax(x, y) == CHOOSE f \in {IF FGt(b, a) THEN b ELSE a : a \in {x}, b \in {y}} : TRUE

\* The integer part of the square root of n >= 0
RECURSIVE ISqrt(_)
ISqrt(n) ==
    IF n < 2 THEN n
    ELSE CHOOSE r \in {IF (s + 1) * (s + 1) > n THEN s ELSE s + 1 :
                        s \in {2 * ISqrt(n \div 4)}} : TRUE

\* math.sqrt(x), x >= 0: the root of the mantissa is taken with two digits
\* more than the precision and a last digit that says whether it is inexact
FSqrt(x) ==
    LET Root(M, e) ==
            CHOOSE f \in {Normalize(2 * r + (IF r * r = M THEN 0 ELSE 1), (e \div 2) - 1) :
                        r \in {ISqrt(M)}} : TRUE
        Shifted(m, e, t) ==
            IF (e - t) % 2 = 0 THEN Root(m * Pow2(t), e - t)
            ELSE Root(m * Pow2(t + 1), e - t - 1)
    IN  CHOOSE f \in {IF a[1] = 0 THEN <<0, 0>>
                      ELSE Shifted(a[1], a[2], Max(0, 2 * Precision + 3 - BitLength(a[1]))) :
                a \in {x}} : TRUE

(***************************************************************************)
(* geometry_utils.py: signatures and their comparison                      *)
(***************************************************************************)
\* What the comparator reads of a vtkPolyData: GetNumberOfPoints(),
\* GetNumberOfCells() and GetBounds().  A polydata without points has the
\* bounds of an uninitialised bounding box.
GetBounds(box) == [i \in 1..6 |-> FromInt(box[i])]

EmptyPolyData ==
    [num_points |-> 0, num_cells |-> 0, bounds |-> GetBounds(<<1, -1, 1, -1, 1, -1>>)]

BoxEdges == (BoxSize - BoxSpread + 1)..BoxSize

Boxes ==
    {<<k, k + x, 0, y, 0, BoxSize>> : k \in 0..MaxOffset, x \in BoxEdges, y \in BoxEdges}
        \cup {<<0, BoxSize, 0, 0, 0, BoxSize>>}

\* The bounding boxes of surfaces of a single vertex
PointBoxes == {<<k, k, 0, 0, 0, 0>> : k \in 0..MaxOffset}

PointCounts == {0} \cup ((MaxCount - 1)..MaxCount)

PolyDatas ==
    {[num_points |-> n, num_cells |-> 2 * c,
      bounds |-> GetBounds(<<0, BoxSize, 0, BoxSize, 0, BoxSize>>)] :
        n \in PointCounts, c \in PointCounts} \cup
    {[num_points |-> MaxCount, num_cells |-> 2 * MaxCount, bounds |-> GetBounds(b)] :
        b \in Boxes} \cup
    {[num_points |-> 1, num_cells |-> 1, bounds |-> GetBounds(b)] : b \in PointBoxes} \cup
    {EmptyPolyData}

\* are_polydata_similar: the default of the threshold parameter, 0.90
DefaultThreshold == Literal(90, 100)
\* A bar of center_similarity that lets every pair pass
CenterBarZero == Literal(0, 100)
\* are_polydata_similar: the bar of center_similarity, 0.95
CenterBar == Literal(95, 100)

Thresholds == {Literal(0, 100), Literal(50, 100), DefaultThreshold, CenterBar, Literal(100, 100)}

\* calculate_polydata_signature(polydata)
calculate_polydata_signature(polydata) ==
    LET Signature(bounds) ==
            [num_points |-> polydata.num_points,
             num_cells |-> polydata.num_cells,
             volume |-> FMul(FMul(FSub(bounds[2], bounds[1]), FSub(bounds[4], bounds[3])),
                             FSub(bounds[6], bounds[5])),
             bounds |-> bounds]
    IN  CHOOSE sig \in {Signature(bounds) : bounds \in {polydata.bounds}} : TRUE

\* min(a, b) / max(a, b) of two counts (int / int is the true quotient)
count_ratio(a, b) == RoundQuotient(Min(a, b), Max(a, b), 0)

\* min(a, b) / max(a, b) of two volumes
volume_ratio(a, b) == FDiv(FMin(a, b), FMax(a, b))

\* The metric does not exceed the threshold
within_threshold(ratio, t) == FGe(t, ratio)

\* ratio >= threshold
reaches_threshold(ratio, t) == FGe(ratio, t)

\* The center of a bounding box: [(lo + hi) / 2 on each axis]
center(bounds) ==
    [i \in 1..3 |-> FDiv(FAdd(bounds[2 * i - 1], bounds[2 * i]), FromInt(2))]

\* math.sqrt(sum((c1 - c2)**2 for c1, c2 in zip(center1, center2)))
center_dist(center1, center2) ==
    LET Square(d) == FMul(d, d)
        sq(i) == CHOOSE f \in {Square(d) : d \in {FSub(center1[i], center2[i])}} : TRUE
    IN  FSqrt(FAdd(FAdd(FAdd(FromInt(0), sq(1)), sq(2)), sq(3)))

\* The six extents are added in the order of the source, then divided by 6.0
avg_size(bounds1, bounds2) ==
    LET extent(bounds, i) == FAbs(FSub(bounds[2 * i], bounds[2 * i - 1]))
    IN  FDiv(FAdd(FAdd(FAdd(FAdd(FAdd(extent(bounds1, 1), extent(bounds1, 2)),
                                 extent(bounds1, 3)),
                            extent(bounds2, 1)),
                       extent(bounds2, 2)),
                  extent(bounds2, 3)),
             FromInt(6))

\* 1.0 when avg_size == 0, max(0, 1.0 - center_dist / avg_size) otherwise
center_similarity(bounds1, bounds2) ==
    LET Clipped(v) == IF FGt(v, FromInt(0)) THEN v ELSE FromInt(0)
        Similarity(dist, size) ==
            IF size[1] = 0 THEN FromInt(1)
            ELSE CHOOSE f \in {Clipped(v) : v \in {FSub(FromInt(1), FDiv(dist, size))}} : TRUE
    IN  CHOOSE f \in {Similarity(dist, size) :
                dist \in {center_dist(center(bounds1), center(bounds2))},
                size \in {avg_size(bounds1, bounds2)}} : TRUE

\* The divisions of are_polydata_similar with neither the three early returns
\* nor the test of avg_size before them
ZeroDivisionUnguarded(s1, s2) ==
    \/ Max(s1.num_points, s2.num_points) = 0
    \/ Max(s1.num_cells, s2.num_cells) = 0
    \/ FMax(s1.volume, s2.volume)[1] = 0
    \/ avg_size(s1.bounds, s2.bounds)[1] = 0

\* are_polydata_similar(sig1, sig2, threshold) raises ZeroDivisionError: one of
\* the divisions it reaches (lines 133, 136, 139 and 182) has a zero divisor
ZeroDivision(s1, s2) ==
    IF s1.num_points = 0 \/ s2.num_points = 0 THEN FALSE
    ELSE IF s1.num_cells = 0 \/ s2.num_cells = 0 THEN FALSE
    ELSE IF s1.volume[1] = 0 \/ s2.volume[1] = 0 THEN FALSE
    ELSE \/ Max(s1.num_points, s2.num_points) = 0
         \/ Max(s1.num_cells, s2.num_cells) = 0
         \/ FMax(s1.volume, s2.volume)[1] = 0
         \/ \E size \in {avg_size(s1.bounds, s2.bounds)} :
               IF size[1] = 0 THEN FALSE ELSE size[1] = 0

\* The branches of are_polydata_similar without the three early returns
center_similarity_branch_unchecked(s1, s2) ==
    IF avg_size(s1.bounds, s2.bounds)[1] = 0 THEN "constant" ELSE "division"

\* How are_polydata_similar gets center_similarity: not at all (it returned
\* before), as the constant 1.0 (avg_size == 0), or by the division
center_similarity_branch(s1, s2) ==
    IF s1.num_points = 0 \/ s2.num_points = 0 THEN "returned"
    ELSE IF s1.num_cells = 0 \/ s2.num_cells = 0 THEN "returned"
    ELSE IF s1.volume[1] = 0 \/ s2.volume[1] = 0 THEN "returned"
    ELSE IF avg_size(s1.bounds, s2.bounds)[1] = 0 THEN "constant"
    ELSE "division"

\* are_polydata_similar without the rejection of zero metrics
are_polydata_similar_no_zero_check(s1, s2, t) ==
    /\ reaches_threshold(count_ratio(s1.num_points, s2.num_points), t)
    /\ reaches_threshold(count_ratio(s1.num_cells, s2.num_cells), t)
    /\ reaches_threshold(volume_ratio(s1.volume, s2.volume), t)
    /\ FGe(center_similarity(s1.bounds, s2.bounds), CenterBar)

\* are_polydata_similar(sig1, sig2, threshold)
are_polydata_similar(s1, s2, t) ==
    IF s1.num_points = 0 \/ s2.num_points = 0 THEN FALSE
    ELSE IF s1.num_cells = 0 \/ s2.num_cells = 0 THEN FALSE
    ELSE IF s1.volume[1] = 0 \/ s2.volume[1] = 0 THEN FALSE
    ELSE /\ reaches_threshold(count_ratio(s1.num_points, s2.num_points), t)
         /\ reaches_threshold(count_ratio(s1.num_cells, s2.num_cells), t)
         /\ reaches_threshold(volume_ratio(s1.volume, s2.volume), t)
         /\ FGe(center_similarity(s1.bounds, s2.bounds), CenterBar)

\* The signatures of two surfaces and a threshold, not compared yet
Signatures(p1, p2, t) ==
    /\ sig1 = calculate_polydata_signature(p1)
    /\ sig2 = calculate_polydata_signature(p2)
    /\ threshold = t
    /\ similar = <<>>

\* The comparison of the two signatures
Compare ==
    /\ similar = <<>>
    /\ similar' = <<are_polydata_similar(sig1, sig2, threshold)>>
    /\ UNCHANGED <<sig1, sig2, threshold>>

(***************************************************************************)
(* segmentation_utils.py: the surfaces reconstructed from the label volume *)
(***************************************************************************)
\* A surface with points and cells in the bounding box box
Solid(box) == [num_points |-> MaxCount, num_cells |-> 2 * MaxCount, bounds |-> GetBounds(box)]

\* What the contour and smoothing filters give for one label: nothing, a cube,
\* the same cube moved by a fifth of its edge, a smaller cube with the same
\* center, and a flat sheet (a label volume of one slice)
SampleSurfaces ==
    {EmptyPolyData,
     Solid(<<0, 5, 0, 5, 0, 5>>),
     Solid(<<1, 6, 0, 5, 0, 5>>),
     Solid(<<1, 4, 1, 4, 1, 4>>),
     Solid(<<0, 5, 0, 5, 0, 0>>)}

\* A label volume: GetScalarRange()[1] in halves, and for each label up to it
\* the output of the smoother (whose points are those of the contour)
LabelVolumes ==
    UNION {[scalar_max : {h}, surface : [1..IntOf(h) -> SampleSurfaces]] :
            h \in (-1)..(2 * MaxLabel + 1)}

\* The thresholds the program reconstructs with: 0.0 (the M key) and the default
ReconstructThresholds == {Literal(0, 100), DefaultThreshold}

\* An actor made by run number n for a label, with the two attributes step 4h sets
SegmentationActor(n, label) == [_is_segmentation_3d |-> TRUE, _label_value |-> label, run |-> n]

\* The labels of the actors in a list of actors
LabelsOf(actors) == {actors[i]._label_value : i \in DOMAIN actors}

\* Step 1 left out: the renderer as it was
RemoveNoActors(ren) == ren

\* Step 1: the renderer without the actors that carry the attribute
RemoveSegmentationActors(ren) == {actor \in ren : "_is_segmentation_3d" \notin DOMAIN actor}

\* ProcessLabel that also records the signature of a surface it discards
ProcessLabelRecordingAll(reader, t, n, label, acc) ==
    LET sig == calculate_polydata_signature(reader.surface[label])
        Recorded == Append(acc.processed_signatures, <<label, sig>>)
        Accepted ==
            [renderer |-> acc.renderer \cup {SegmentationActor(n, label)},
             segmentation_actors |-> Append(acc.segmentation_actors, SegmentationActor(n, label)),
             processed_signatures |-> Recorded,
             visited |-> Append(acc.visited, label)]
    IN  IF reader.surface[label].num_points = 0
        THEN [acc EXCEPT !.visited = Append(acc.visited, label)]
        ELSE IF \E i \in 1..Len(acc.processed_signatures) :
                    are_polydata_similar(sig, acc.processed_signatures[i][2], t)
        THEN [acc EXCEPT !.visited = Append(acc.visited, label),
                         !.processed_signatures = Recorded]
        ELSE Accepted

\* One pass of the loop of step 4 for label; acc holds renderer,
\* segmentation_actors, processed_signatures and the labels visited
ProcessLabel(reader, t, n, label, acc) ==
    LET Accepted(sig) ==
            [renderer |-> acc.renderer \cup {SegmentationActor(n, label)},
             segmentation_actors |-> Append(acc.segmentation_actors, SegmentationActor(n, label)),
             processed_signatures |-> Append(acc.processed_signatures, <<label, sig>>),
             visited |-> Append(acc.visited, label)]
        Skipped == [acc EXCEPT !.visited = Append(acc.visited, label)]
        Checked(sig) ==
            IF \E i \in 1..Len(acc.processed_signatures) :
                    are_polydata_similar(sig, acc.processed_signatures[i][2], t)
            THEN Skipped
            ELSE Accepted(sig)
    IN  IF reader.surface[label].num_points = 0 THEN Skipped
        ELSE CHOOSE r \in {Checked(sig) :
                    sig \in {calculate_polydata_signature(reader.surface[label])}} : TRUE

\* for label in range(first, last + 1)
RECURSIVE LabelLoop(_, _, _, _, _, _)
LabelLoop(reader, t, n, first, last, acc) ==
    IF first > last THEN acc
    ELSE CHOOSE r \in {LabelLoop(reader, t, n, first + 1, last, next) :
                next \in {ProcessLabel(reader, t, n, first, acc)}} : TRUE

\* create_segmentation_3d_model with range(1, int(scalar_max))
create_segmentation_3d_model_exclusive(reader, ren, t, n) ==
    LabelLoop(reader, t, n, 1, IntOf(reader.scalar_max) - 1,
              [renderer |-> RemoveSegmentationActors(ren),
               segmentation_actors |-> <<>>,
               processed_signatures |-> <<>>,
               visited |-> <<>>])

\* create_segmentation_3d_model(label_reader, lut, renderer, mesh_actors_list,
\* similarity_threshold), as the n-th run: the renderer it leaves and the list
\* it returns
create_segmentation_3d_model(reader, ren, t, n) ==
    LabelLoop(reader, t, n, 1, IntOf(reader.scalar_max),
              [renderer |-> RemoveSegmentationActors(ren),
               segmentation_actors |-> <<>>,
               processed_signatures |-> <<>>,
               visited |-> <<>>])

\* One reconstruction
Reconstruct ==
    /\ run < MaxRuns
    /\ \E done \in {create_segmentation_3d_model(image_data, renderer,
                                                 similarity_threshold, run + 1)} :
        /\ renderer' = done.renderer
        /\ segmentation_actors' = done.segmentation_actors
        /\ processed_signatures' = done.processed_signatures
        /\ visited' = done.visited
    /\ run' = run + 1
    /\ UNCHANGED <<image_data, similarity_threshold>>

\* The tissue meshes main put in the renderer
MeshActors == {[kind |-> "mesh", tissue |-> "liver"]}

(***************************************************************************)
(* callbacks.py: SliderToggleCallback, the handler of the keys M, N and L  *)
(***************************************************************************)
Tissues == {"liver"}
PlaneSliders == {"X Slice", "Y Slice", "Z Slice"}
SliderNames == PlaneSliders \cup Tissues

\* The opacities of parameters.json, in hundredths
Opacities == {50, 90, 100}

\* SliderProperties.value_initial, 1.0: where the slider of a tissue starts
value_initial == 100

\* The keys: m, n, l and any other
Keys == {"m", "n", "l", "x"}

\* for actor in self.segmentation_actors: self.renderer.RemoveActor(actor), left out
KeepActors(ren, actors) == ren

\* for actor in self.segmentation_actors: self.renderer.RemoveActor(actor)
RemoveActors(ren, actors) == ren \ {actors[i] : i \in DOMAIN actors}

\* create_segmentation_sliders with the sliders kept under the position of the
\* actor in the list
create_segmentation_sliders_by_index(dict, actors) ==
    [idx \in DOMAIN dict \cup DOMAIN actors |->
        IF idx \in DOMAIN actors
        THEN [enabled |-> TRUE, property |-> actors[idx]]
        ELSE dict[idx]]

\* create_segmentation_sliders: for each actor of the list, in order, an enabled
\* slider whose callback holds the actor's property, kept under the actor's label
create_segmentation_sliders(dict, actors) ==
    [label \in DOMAIN dict \cup LabelsOf(actors) |->
        IF label \in LabelsOf(actors)
        THEN [enabled |-> TRUE,
              property |-> actors[CHOOSE i \in DOMAIN actors :
                                    /\ actors[i]._label_value = label
                                    /\ \A j \in DOMAIN actors :
                                          actors[j]._label_value = label => j <= i]]
        ELSE dict[label]]

\* for slider in self.sliders.values(): slider.SetEnabled(True)
EnableAll(s) == [name \in DOMAIN s |-> [s[name] EXCEPT !.enabled = TRUE]]

\* for actor in self.label_actors.values(): actor.SetVisibility(True)
ShowAll(actors) == [P \in DOMAIN actors |-> TRUE]

\* Mode 3: the tissue sliders off, the meshes hidden, the reconstruction
EnterSegmentationMode ==
    /\ sliders' = [name \in DOMAIN sliders |->
                      IF name \notin PlaneSliders
                      THEN [sliders[name] EXCEPT !.enabled = FALSE]
                      ELSE sliders[name]]
    /\ mesh_actors_dict' = [tissue \in DOMAIN mesh_actors_dict |->
                               [mesh_actors_dict[tissue] EXCEPT !.visibility = FALSE]]
    /\ IF hasLabels
       THEN /\ run < MaxRuns
            /\ \E done \in {create_segmentation_3d_model(image_data, renderer,
                                                         Literal(0, 100), run + 1)} :
                /\ renderer' = done.renderer
                /\ segmentation_actors' = done.segmentation_actors
                /\ processed_signatures' = done.processed_signatures
                /\ visited' = done.visited
                /\ segmentation_sliders' =
                       create_segmentation_sliders(segmentation_sliders, done.segmentation_actors)
            /\ run' = run + 1
       ELSE UNCHANGED <<renderer, segmentation_actors, processed_signatures, visited,
                        segmentation_sliders, run>>
    /\ UNCHANGED label_actors

\* Modes 0, 1 and 2: the reconstructed surfaces and their sliders removed, the
\* meshes shown in the style of the mode
LeaveSegmentationMode ==
    /\ segmentation_sliders' = <<>>
    /\ sliders' = EnableAll(sliders)
    /\ renderer' = RemoveActors(renderer, segmentation_actors)
    /\ segmentation_actors' = <<>>
    /\ mesh_actors_dict' =
           [tissue \in DOMAIN mesh_actors_dict |->
               CASE mode_state' = 0 ->
                        [visibility |-> TRUE, representation |-> "surface",
                         opacity |-> IF tissue \in DOMAIN sliders
                                     THEN sliders[tissue].value ELSE 100]
                 [] mode_state' = 1 ->
                        [visibility |-> TRUE, representation |-> "wireframe", opacity |-> 100]
                 [] OTHER ->
                        [visibility |-> TRUE, representation |-> "surface", opacity |-> 1]]
    /\ label_actors' = ShowAll(label_actors)
    /\ UNCHANGED <<processed_signatures, visited, run>>

\* SliderToggleCallback.__call__ for one key press
SliderToggleCallback(key) ==
    /\ IF key = "n"
       THEN /\ sliders' = [name \in DOMAIN sliders |->
                              [sliders[name] EXCEPT !.enabled = ~sliders[name].enabled]]
            /\ UNCHANGED <<mode_state, mesh_actors_dict, label_actors, segmentation_sliders,
                           renderer, segmentation_actors, processed_signatures, visited, run>>
       ELSE IF key = "l" /\ DOMAIN label_actors /= {}
       THEN /\ label_actors' = [P \in DOMAIN label_actors |-> ~label_actors[P]]
            /\ UNCHANGED <<mode_state, sliders, mesh_actors_dict, segmentation_sliders,
                           renderer, segmentation_actors, processed_signatures, visited, run>>
       ELSE IF key = "m"
       THEN /\ mode_state' = (mode_state + 1) % 4
            /\ IF mode_state' = 3 THEN EnterSegmentationMode ELSE LeaveSegmentationMode
       ELSE UNCHANGED <<mode_state, sliders, mesh_actors_dict, label_actors,
                        segmentation_sliders, renderer, segmentation_actors,
                        processed_signatures, visited, run>>
    /\ UNCHANGED <<image_data, similarity_threshold, hasLabels, params>>

(***************************************************************************)
(* file_utils.py: resolve_vtk_file, and TISSUE_TO_STEM of config.py        *)
(***************************************************************************)
\* config.py: TISSUE_TO_STEM, each token as the sequence of its characters
TISSUE_TO_STEM ==
    [
      ivc |->
          <<"I", "V", "C">>,
      caudate_veins |->
          <<"C", "a", "u", "d", "a", "t", "e", "V", "e", "i", "n", "s">>,
      main_portal_vein |->
          <<"M", "a", "i", "n", "P", "o", "r", "t", "a", "l", "V", "e", "i", "n">>,
      left_portal_vein |->
          <<"L", "e", "f", "t", "P", "o", "r", "t", "a", "l", "V", "e", "i", "n">>,
      right_portal_vein |->
          <<"R", "i", "g", "h", "t", "P", "o", "r", "t", "a", "l", "V", "e", "i",
          "n">>,
      left_hepatic_vein |->
          <<"L", "e", "f", "t", "H", "e", "p", "a", "t", "i", "c", "V", "e", "i",
          "n">>,
      middle_hepatic_vein |->
          <<"M", "i", "d", "d", "l", "e", "H", "e", "p", "a", "t", "i", "c", "V",
          "e", "i", "n">>,
      right_hepatic_vein |->
          <<"R", "i", "g", "h", "t", "H", "e", "p", "a", "t", "i", "c", "V", "e",
          "i", "n">>,
      liver_segment_i |->
          <<"L", "i", "v", "e", "r", "S", "e", "g", "m", "e", "n", "t", "_", "I">>,
      liver_segment_ii |->
          <<"L", "i", "v", "e", "r", "S", "e", "g", "m", "e", "n", "t", "_", "I",
          "I">>,
      liver_segment_iii |->
          <<"L", "i", "v", "e", "r", "S", "e", "g", "m", "e", "n", "t", "_", "I",
          "I", "I">>,
      liver_segment_iva |->
          <<"L", "i", "v", "e", "r", "S", "e", "g", "m", "e", "n", "t", "_", "I",
          "V", "a">>,
      liver_segment_ivb |->
          <<"L", "i", "v", "e", "r", "S", "e", "g", "m", "e", "n", "t", "_", "I",
          "V", "b">>,
      liver_segment_v |->
          <<"L", "i", "v", "e", "r", "S", "e", "g", "m", "e", "n", "t", "_", "V">>,
      liver_segment_vi |->
          <<"L", "i", "v", "e", "r", "S", "e", "g", "m", "e", "n", "t", "_", "V",
          "I">>,
      liver_segment_vii |->
          <<"L", "i", "v", "e", "r", "S", "e", "g", "m", "e", "n", "t", "_", "V",
          "I", "I">>,
      liver_segment_viii |->
          <<"L", "i", "v", "e", "r", "S", "e", "g", "m", "e", "n", "t", "_", "V",
          "I", "I", "I">>,
      gallbladder |->
          <<"G", "a", "l", "l", "b", "l", "a", "d", "d", "e", "r">>,
      stomach |->
          <<"S", "t", "o", "m", "a", "c", "h">>,
      right_kidney |->
          <<"R", "i", "g", "h", "t", "K", "i", "d", "n", "e", "y">>,
      left_kidney |->
          <<"L", "e", "f", "t", "K", "i", "d", "n", "e", "y">>,
      spleen |->
          <<"S", "p", "l", "e", "e", "n">>,
      aorta |->
          <<"A", "o", "r", "t", "a">> ]

\* token in stem: the token is a run of consecutive characters of the stem
Contains(stem, token) ==
    \E start \in 0..(Len(stem) - Len(token)) :
        \A i \in 1..Len(token) : stem[start + i] = token[i]

\* tissue.lower(), for the names that are written with capitals
Capitalised ==
    [IVC |-> "ivc", Spleen |-> "spleen", LIVER_SEGMENT_I |-> "liver_segment_i",
     Liver_Segment_VI |-> "liver_segment_vi"]
lower(name) == IF name \in DOMAIN Capitalised THEN Capitalised[name] ELSE name

\* The outcome of resolve_vtk_file: the path returned, or KeyError
ReturnedPath(path) == [raised |-> FALSE, returned |-> <<path>>]
KeyError == [raised |-> TRUE, returned |-> <<>>]

\* resolve_vtk_file(tissue, vtk_map): the path of the first item, in the order
\* of the dictionary, whose stem contains the token of the tissue
resolve_vtk_file(name, map) ==
    LET key == lower(name)
        First(token) ==
            LET hits == {i \in DOMAIN map : Contains(map[i].stem, token)}
            IN  IF hits = {} THEN KeyError
                ELSE ReturnedPath(map[CHOOSE i \in hits : \A j \in hits : i <= j].path)
    IN  IF key \notin DOMAIN TISSUE_TO_STEM THEN KeyError
        ELSE CHOOSE r \in {First(token) : token \in {TISSUE_TO_STEM[key]}} : TRUE

\* parse_json: the item of vtk_map for the file <root>/<stem>.vtk
VtkFile(stem) == [stem |-> stem, path |-> <<"root", stem>>]

\* The keys of TISSUE_TO_STEM in the order of config.py
TissueOrder ==
    <<"ivc", "caudate_veins", "main_portal_vein", "left_portal_vein",
      "right_portal_vein", "left_hepatic_vein", "middle_hepatic_vein", "right_hepatic_vein",
      "liver_segment_i", "liver_segment_ii", "liver_segment_iii", "liver_segment_iva",
      "liver_segment_ivb", "liver_segment_v", "liver_segment_vi", "liver_segment_vii",
      "liver_segment_viii", "gallbladder", "stomach", "right_kidney",
      "left_kidney", "spleen", "aorta">>

\* The list of files, one per tissue and named by the tissue's token, in the
\* order of a list of tissues
FilesOf(keys) == [i \in DOMAIN keys |-> VtkFile(TISSUE_TO_STEM[keys[i]])]

\* A list with its k-th element moved to the front, and without it
MovedToFront(list, k) ==
    [i \in DOMAIN list |-> IF i = 1 THEN list[k] ELSE IF i <= k THEN list[i - 1] ELSE list[i]]
Without(list, k) ==
    [i \in 1..(Len(list) - 1) |-> IF i < k THEN list[i] ELSE list[i + 1]]
Reversed(list) == [i \in DOMAIN list |-> list[Len(list) + 1 - i]]

\* The dictionaries of the sample configurations: one file per tissue in the
\* order of config.py, in the reverse order, with one file listed first, and
\* with one file missing
CompleteMaps ==
    {FilesOf(TissueOrder), FilesOf(Reversed(TissueOrder))}
        \cup {FilesOf(MovedToFront(TissueOrder, k)) : k \in DOMAIN TissueOrder}
VtkMaps == CompleteMaps \cup {FilesOf(Without(TissueOrder, k)) : k \in DOMAIN TissueOrder}

\* The names main asks for: the tissues, some with capitals, and unknown ones
TissueNames ==
    DOMAIN TISSUE_TO_STEM \cup DOMAIN Capitalised \cup {"kidney", "liver", ""}

\* One call of resolve_vtk_file
Resolve ==
    /\ resolved = <<>>
    /\ resolved' = <<resolve_vtk_file(tissue_name, vtk_map)>>
    /\ UNCHANGED <<tissue_name, vtk_map>>

(***************************************************************************)
(* Specifications                                                          *)
(***************************************************************************)
OrderIdle == /\ transform = SliceOrderInit
             /\ got = NotCalled
             /\ pt = <<0, 0, 0>>

ViewIdle == /\ volume = EmptyVolume
            /\ hasLabels = FALSE
            /\ slider = [P \in Planes |-> 0]
            /\ xform = [P \in Planes |-> NewTransform]
            /\ gray = [P \in Planes |-> NewReslice("gray")]
            /\ labels = [P \in Planes |-> <<>>]
            /\ renderer = {}
            /\ repeated = FALSE

SimIdle == Signatures(EmptyPolyData, EmptyPolyData, DefaultThreshold)

SegIdle == /\ image_data = [scalar_max |-> 0, surface |-> <<>>]
           /\ similarity_threshold = DefaultThreshold
           /\ run = 0
           /\ visited = <<>>
           /\ processed_signatures = <<>>
           /\ segmentation_actors = <<>>

\* The slice viewer
KeyIdle == /\ mode_state = 0
           /\ sliders = <<>>
           /\ mesh_actors_dict = <<>>
           /\ label_actors = <<>>
           /\ segmentation_sliders = <<>>
           /\ params = [opacity |-> <<>>]

FileIdle == /\ tissue_name = ""
            /\ vtk_map = <<>>
            /\ resolved = <<>>

Init == ViewInit /\ OrderIdle /\ SimIdle /\ SegIdle /\ KeyIdle /\ FileIdle

Next ==
    /\ \E P \in Planes : \E h \in SliderValues(volume.dims, P) : SliderEvent(P, h)
    /\ UNCHANGED <<orderVars, simVars, segVars, keyVars, fileVars>>

Spec == Init /\ [][Next]_vars

\* The orientation table
OrderInit ==
    /\ transform = SliceOrderInit
    /\ got = NotCalled
    /\ pt \in Points
    /\ ViewIdle /\ SimIdle /\ SegIdle /\ KeyIdle /\ FileIdle

OrderNext ==
    /\ \E order \in Orders : Get(order)
    /\ UNCHANGED <<viewVars, simVars, segVars, keyVars, fileVars>>

SpecOrder == OrderInit /\ [][OrderNext]_vars

\* The mesh loop of main: one SliceOrder per tissue
MeshNext ==
    /\ \E order \in Orders : LoadMesh(order)
    /\ UNCHANGED <<viewVars, simVars, segVars, keyVars, fileVars>>

SpecMesh == OrderInit /\ [][MeshNext]_vars

\* The similarity comparator, on every pair of sample surfaces
SimilarInit ==
    /\ \E p1 \in PolyDatas, p2 \in PolyDatas, t \in Thresholds : Signatures(p1, p2, t)
    /\ OrderIdle
    /\ ViewIdle
    /\ SegIdle
    /\ KeyIdle
    /\ FileIdle

SimilarNext ==
    /\ Compare
    /\ UNCHANGED <<orderVars, viewVars, segVars, keyVars, fileVars>>

SpecSimilar == SimilarInit /\ [][SimilarNext]_vars

\* The reconstruction, on every sample label volume
ReconstructInit ==
    /\ image_data \in LabelVolumes
    /\ similarity_threshold \in ReconstructThresholds
    /\ run = 0
    /\ visited = <<>>
    /\ processed_signatures = <<>>
    /\ segmentation_actors = <<>>
    /\ renderer = MeshActors
    /\ volume = EmptyVolume
    /\ hasLabels = TRUE
    /\ slider = [P \in Planes |-> 0]
    /\ xform = [P \in Planes |-> NewTransform]
    /\ gray = [P \in Planes |-> NewReslice("gray")]
    /\ labels = [P \in Planes |-> <<>>]
    /\ repeated = FALSE
    /\ OrderIdle
    /\ SimIdle
    /\ KeyIdle
    /\ FileIdle

ReconstructNext ==
    /\ Reconstruct
    /\ UNCHANGED <<orderVars, viewRest, simVars, keyVars, fileVars>>

SpecReconstruct == ReconstructInit /\ [][ReconstructNext]_vars

\* Surfaces whose bounding boxes have the same extents and are one voxel
\* apart, next to a far smaller one and an empty one
ShiftedSurfaces ==
    {EmptyPolyData,
     Solid(<<0, 5, 0, 5, 0, 5>>),
     Solid(<<1, BoxSize + 1, 0, BoxSize - 1, 0, BoxSize>>),
     Solid(<<0, BoxSize - 1, 0, BoxSize - 1, 0, BoxSize>>)}

ShiftedVolumes ==
    UNION {[scalar_max : {h}, surface : [1..IntOf(h) -> ShiftedSurfaces]] :
            h \in (-1)..(2 * MaxLabel + 1)}

\* The reconstruction on the volumes of shifted surfaces
ShiftedInit ==
    /\ image_data \in ShiftedVolumes
    /\ similarity_threshold \in ReconstructThresholds
    /\ run = 0
    /\ visited = <<>>
    /\ processed_signatures = <<>>
    /\ segmentation_actors = <<>>
    /\ renderer = MeshActors
    /\ hasLabels = TRUE
    /\ volume = EmptyVolume
    /\ slider = [P \in Planes |-> 0]
    /\ xform = [P \in Planes |-> NewTransform]
    /\ gray = [P \in Planes |-> NewReslice("gray")]
    /\ labels = [P \in Planes |-> <<>>]
    /\ repeated = FALSE
    /\ OrderIdle
    /\ SimIdle
    /\ KeyIdle
    /\ FileIdle

SpecShifted == ShiftedInit /\ [][ReconstructNext]_vars

\* The label volumes of the key handler's behaviours: each label has no
\* surface, a cube, or the cube moved by a fifth of its edge
KeyVolumes ==
    {v \in LabelVolumes :
        \A label \in DOMAIN v.surface :
            v.surface[label] \in {EmptyPolyData, Solid(<<0, 5, 0, 5, 0, 5>>),
                                  Solid(<<1, 6, 0, 5, 0, 5>>)}}

\* The program after main registered the handler (main.py 386), with or
\* without a label volume
KeysInit ==
    /\ hasLabels \in BOOLEAN
    /\ IF hasLabels THEN image_data \in KeyVolumes
                    ELSE image_data = [scalar_max |-> 0, surface |-> <<>>]
    /\ similarity_threshold = Literal(0, 100)
    /\ run = 0
    /\ visited = <<>>
    /\ processed_signatures = <<>>
    /\ segmentation_actors = <<>>
    /\ mode_state = 0
    /\ params \in [opacity : [Tissues -> Opacities]]
    /\ sliders = [name \in SliderNames |->
                     [enabled |-> TRUE,
                      value |-> IF name \in Tissues THEN value_initial ELSE 0]]
    /\ mesh_actors_dict = [tissue \in Tissues |->
                              [visibility |-> TRUE, representation |-> "surface",
                               opacity |-> params.opacity[tissue]]]
    /\ label_actors = [P \in (IF hasLabels THEN Planes ELSE {}) |-> TRUE]
    /\ segmentation_sliders = <<>>
    /\ renderer = MeshActors
    /\ volume = EmptyVolume
    /\ slider = [P \in Planes |-> 0]
    /\ xform = [P \in Planes |-> NewTransform]
    /\ gray = [P \in Planes |-> NewReslice("gray")]
    /\ labels = [P \in Planes |-> <<>>]
    /\ repeated = FALSE
    /\ OrderIdle
    /\ SimIdle
    /\ FileIdle

KeysNext ==
    /\ \E key \in Keys : SliderToggleCallback(key)
    /\ UNCHANGED <<orderVars, simVars, fileVars, volume, slider, xform, gray, labels, repeated>>

\* The orientations a caller may hand to the slice engines: the three planes
\* and a string that names none of them
Orientations == Planes \cup {"ZX"}

\* The slice numbers a caller asks for
RequestedSlices == (-MaxCoord)..MaxCoord

\* create_slice_plane called for an orientation that has no plane yet:
\* the reslices and the transform are made and set, the actors are added
CreateOriented(orientation, slice_num) ==
    /\ orientation \notin DOMAIN xform
    /\ \E created \in {create_slice_plane(volume, hasLabels, orientation, slice_num)} :
        /\ slider' = slider @@ (orientation :> Half(slice_num))
        /\ xform' = xform @@ (orientation :> created.transform)
        /\ gray' = gray @@ (orientation :> created.reslice)
        /\ labels' = labels @@ (orientation :> created.reslice_labels)
        /\ renderer' = renderer \cup
                          {[kind |-> "gray", plane |-> orientation]} \cup
                          {[kind |-> "labels", plane |-> orientation] :
                              i \in DOMAIN created.reslice_labels}
    /\ UNCHANGED <<volume, hasLabels, repeated>>

\* The slice engines on any orientation string
OrientInit ==
    /\ volume \in LoadedVolumes
    /\ hasLabels \in BOOLEAN
    /\ slider = <<>>
    /\ xform = <<>>
    /\ gray = <<>>
    /\ labels = <<>>
    /\ renderer = {}
    /\ repeated = FALSE
    /\ OrderIdle
    /\ SimIdle
    /\ SegIdle
    /\ KeyIdle
    /\ FileIdle

OrientNext ==
    /\ \E orientation \in Orientations : \E slice_num \in RequestedSlices :
           \/ CreateOriented(orientation, slice_num)
           \/ orientation \in DOMAIN xform /\ SliderEvent(orientation, Half(slice_num))
    /\ UNCHANGED <<orderVars, simVars, segVars, keyVars, fileVars>>

SpecOrient == OrientInit /\ [][OrientNext]_vars

\* The lookup of a tissue's file, on every sample dictionary
ResolveInit ==
    /\ tissue_name \in TissueNames
    /\ vtk_map \in VtkMaps
    /\ resolved = <<>>
    /\ OrderIdle /\ ViewIdle /\ SimIdle /\ SegIdle /\ KeyIdle

ResolveNext ==
    /\ Resolve
    /\ UNCHANGED <<orderVars, viewVars, simVars, segVars, keyVars>>

SpecResolve == ResolveInit /\ [][ResolveNext]_vars

SpecKeys == KeysInit /\ [][KeysNext]_vars

\* The key M alone, with no other interaction
CycleNext ==
    /\ SliderToggleCallback("m")
    /\ UNCHANGED <<orderVars, simVars, fileVars, volume, slider, xform, gray, labels, repeated>>

SpecCycle == KeysInit /\ [][CycleNext]_vars
(***************************************************************************)
(* Properties of the slice engine                                          *)
(***************************************************************************)
\* The slice number the slider of plane P asks for
Req(P) == IntOf(slider[P])

\* The axis each plane moves along, and the per-plane policy as a table
AxisOf(P) == CASE P = "XY" -> 3 [] P = "XZ" -> 2 [] P = "YZ" -> 1
IndexOf(P, s) == IF P = "XZ" THEN (-s) + volume.dims[2] \div 2
                 ELSE s + volume.dims[AxisOf(P)] \div 2
PhysicalOf(P, s) == IndexOf(P, s) * volume.spacing[AxisOf(P)]
AxesOf(P) == CASE P = "XY" -> <<1, 0, 0, 0, 1, 0, 0, 0, 1>>
               [] P = "XZ" -> <<-1, 0, 0, 0, 0, 1, 0, 1, 0>>
               [] P = "YZ" -> <<0, 1, 0, 0, 0, 1, 1, 0, 0>>
OriginOf(P, s) == [i \in 1..3 |-> IF i = AxisOf(P) THEN PhysicalOf(P, s) ELSE 0]

\* The slice number plane P shows, and the one main creates the plane with
SliceNumbers(P) == {Req(P), InitialSlice(volume.dims)[P]}

\* A reslice is set as the policy says for slice s of plane P
ResliceAsPolicy(r, P, s) == r.axes = AxesOf(P) /\ r.origin = OriginOf(P, s)

\* C3: for every slice index and volume geometry both engines set the axes,
\* the absolute index and the origin of the per-plane policy; the origin is
\* zero off the plane's axis and index * spacing on it.
C3_PlanePolicy ==
    \A P \in Planes :
        /\ ResliceAsPolicy(gray[P], P, Req(P))
        /\ \A i \in DOMAIN labels[P] : ResliceAsPolicy(labels[P][i], P, Req(P))
        /\ \A s \in SliceNumbers(P) :
              Let(create_slice_plane(volume, hasLabels, P, s),
                  LAMBDA made :
                      /\ ResliceAsPolicy(made.reslice, P, s)
                      /\ \A i \in DOMAIN made.reslice_labels :
                            ResliceAsPolicy(made.reslice_labels[i], P, s))

\* C3 (witness): a slider event has moved the coronal plane of a loaded volume
\* off its start-up slice
C3_Witness ==
    /\ volume.loaded
    /\ Req("XZ") /= IntOf(Half(SliderOf(volume.dims, "XZ").value))
    /\ gray["XZ"].origin[2] /= 0

\* The stages of the placement transform of plane P, and their product
FirstRotation(P) == CASE P = "XY" -> IdentityMat
                      [] P = "XZ" -> RotXMat(90)
                      [] P = "YZ" -> RotYMat(-90)
SecondRotation(P) == CASE P = "XY" -> IdentityMat
                       [] P = "XZ" -> RotZMat(180)
                       [] P = "YZ" -> RotZMat(90)
StageProduct(P, p) ==
    MatMul(MatMul(MatMul(ScaleMat(1, -1, -1), FirstRotation(P)), SecondRotation(P)),
           TranslateMat(0, 0, -p))

\* The same product written out
PlacementOf(P, p) ==
    CASE P = "XY" -> << <<1, 0, 0, 0>>, <<0, -1, 0, 0>>, <<0, 0, -1, p>>, <<0, 0, 0, 1>> >>
      [] P = "XZ" -> << <<-1, 0, 0, 0>>, <<0, 0, 1, -p>>, <<0, 1, 0, 0>>, <<0, 0, 0, 1>> >>
      [] P = "YZ" -> << <<0, 0, -1, p>>, <<-1, 0, 0, 0>>, <<0, 1, 0, 0>>, <<0, 0, 0, 1>> >>

\* C4: the placement transform of each plane is the product, in this order, of
\* scale(1,-1,-1), the plane's rotations and translate(0,0,-p), p the physical
\* coordinate of the slice shown; nothing of an earlier slice is left in it.
C4_PlacementStages ==
    \A P \in Planes :
        /\ xform[P] = StageProduct(P, PhysicalOf(P, Req(P)))
        /\ xform[P] = PlacementOf(P, PhysicalOf(P, Req(P)))
        /\ \A s \in SliceNumbers(P) :
              create_slice_plane(volume, hasLabels, P, s).transform
                  = StageProduct(P, PhysicalOf(P, s))

\* C4 (witness): the sagittal plane has been moved to another slice, and its
\* transform carries the coordinate of that slice
C4_Witness ==
    /\ volume.loaded
    /\ Req("YZ") /= IntOf(Half(SliderOf(volume.dims, "YZ").value))
    /\ PhysicalOf("YZ", Req("YZ")) /= 0
    /\ xform["YZ"][1][4] = PhysicalOf("YZ", Req("YZ"))

\* C5: the coronal plane negates the slice number before offsetting: slice s
\* lies at (-s + dimY div 2) * spacingY and slice -s at (s + dimY div 2) *
\* spacingY, mirror images about (dimY div 2) * spacingY; the axial and the
\* sagittal plane use +s.
C5_CoronalNegated ==
    LET s == Req("XZ")
        dimY == volume.dims[2]
        spacingY == volume.spacing[2]
        shown == gray["XZ"].origin[2]
        mirrored == SlicePlaneCallback(CallbackOf("XZ"), Half(-s)).gray.origin[2]
    IN  /\ shown = ((-s) + dimY \div 2) * spacingY
        /\ mirrored = (s + dimY \div 2) * spacingY
        /\ shown + mirrored = 2 * ((dimY \div 2) * spacingY)
        /\ create_slice_plane(volume, hasLabels, "XZ", s).reslice.origin[2] = shown
        /\ create_slice_plane(volume, hasLabels, "XZ", -s).reslice.origin[2] = mirrored
        /\ gray["XY"].origin[3] = (Req("XY") + volume.dims[3] \div 2) * volume.spacing[3]
        /\ gray["YZ"].origin[1] = (Req("YZ") + volume.dims[1] \div 2) * volume.spacing[1]

\* C5 (witness): a positive coronal slice number, shown below the centre
C5_Witness ==
    /\ volume.loaded
    /\ Req("XZ") > 0
    /\ Req("XZ") /= IntOf(Half(SliderOf(volume.dims, "XZ").value))
    /\ gray["XZ"].origin[2] < (volume.dims[2] \div 2) * volume.spacing[2]

\* C6: the engine is a pure function of plane, slice number, spacing and
\* dimensions: an event that asks again for the slice a plane shows leaves the
\* plane's axes, origin and transform as they are, every event leaves what a
\* fresh engine computes from the same inputs, and the volume is not modified.
C6_PureEngine ==
    [][/\ \A P \in Planes :
            /\ IntOf(slider'[P]) = IntOf(slider[P]) =>
                  /\ xform'[P] = xform[P]
                  /\ gray'[P] = gray[P]
                  /\ labels'[P] = labels[P]
            /\ slider'[P] /= slider[P] =>
                  Let(create_slice_plane(volume', hasLabels', P, IntOf(slider'[P])),
                      LAMBDA made :
                          /\ xform'[P] = made.transform
                          /\ gray'[P] = made.reslice
                          /\ labels'[P] = made.reslice_labels)
       /\ volume' = volume]_vars

\* C6 (witness): a slider event asked for the slice its plane already showed
C6_Witness == volume.loaded /\ repeated

\* C7: once a slider event is handled, the transform, the grayscale reslice
\* and (with a label volume) the label reslice of every plane are those of the
\* most recent request of that plane, and each plane has one actor of each kind.
C7_OneLiveResult ==
    \A P \in Planes :
        /\ xform[P] = PlacementOf(P, PhysicalOf(P, Req(P)))
        /\ gray[P].input = "gray"
        /\ ResliceAsPolicy(gray[P], P, Req(P))
        /\ Len(labels[P]) = IF hasLabels THEN 1 ELSE 0
        /\ \A i \in DOMAIN labels[P] :
              /\ labels[P][i].input = "labels"
              /\ ResliceAsPolicy(labels[P][i], P, Req(P))
        /\ Cardinality({a \in renderer : a.plane = P}) = IF hasLabels THEN 2 ELSE 1

\* C7 (witness): with a label volume, the axial plane shows a slice other than
\* the one of start-up, asked for by the last event
C7_Witness ==
    /\ volume.loaded
    /\ hasLabels
    /\ ~repeated
    /\ Req("XY") /= IntOf(Half(SliderOf(volume.dims, "XY").value))
    /\ labels["XY"][1].origin[3] = PhysicalOf("XY", Req("XY"))

\* C8: when the volume reader has produced no data a reslice fails with "no
\* volume data": no image actor is emitted for an empty raster.
C8_NoVolumeDataFails == ~volume.loaded => renderer = {}

\* C24: the two engines agree: for every plane, what the slider callback left
\* at the slider's value (the placement transform and the axes and origin of
\* the grayscale and of the label reslice) is what create_slice_plane builds
\* for the same integer slice value and volume
C24_EnginesAgree ==
    \A P \in Planes :
        \E created \in {create_slice_plane(volume, hasLabels, P, Req(P))} :
            /\ xform[P] = created.transform
            /\ gray[P] = created.reslice
            /\ labels[P] = created.reslice_labels

C24_Witness ==
    /\ volume.loaded /\ hasLabels
    /\ \A P \in Planes : Req(P) /= InitialSlice(volume.dims)[P]
    /\ Req("XZ") > 0

\* The number of voxels of the volume along the axis plane P cuts
DimOf(P) == volume.dims[AxisOf(P)]

\* C27: the slice each plane is created with, and every value of its slider,
\* give an absolute slice index inside the volume: 0 <= index <= dim - 1
C27_IndexInsideVolume ==
    volume.loaded =>
        \A P \in Planes :
            \A value \in {InitialSlice(volume.dims)[P], Req(P)} :
                \E index \in {actual_slice(P, value, volume.dims)} :
                    0 <= index /\ index <= DimOf(P) - 1

(***************************************************************************)
(* Properties of the orientation table                                     *)
(***************************************************************************)
\* C1: get returns the transform stored under a code of the table and raises
\* for every other code; it never returns the identity, or any transform, as a
\* fallback.
C1_GetOrRaise ==
    got.called =>
        IF got.order \in TableCodes
        THEN ~got.raised /\ got.returned = <<transform[got.order]>>
        ELSE got.raised /\ got.returned = <<>>

\* C1 (witness): get was called with "unknown" and raised
C1_Witness == got.called /\ got.order = "unknown" /\ got.raised

\* The base code of each composite code
BaseOf == [hfsi |-> "si", hfis |-> "is", hfap |-> "ap", hfpa |-> "pa",
           hflr |-> "lr", hfrl |-> "rl"]

\* C2: for every composite code hfX the table's transform maps a point to
\* where the hf matrix first and the X correction second map it.
C2_CompositeIsHfThenX ==
    (got.called /\ got.order \in CompositeCodes /\ ~got.raised) =>
        TransformPoint(got.returned[1], pt)
            = TransformPoint(transform[BaseOf[got.order]],
                             TransformPoint(transform["hf"], pt))

\* C19 as stated: the table has exactly 16 codes, and get succeeds for exactly
\* the codes of the table
C19_SixteenCodes ==
    /\ Cardinality(DOMAIN transform) = 16
    /\ got.called => (~got.raised <=> got.order \in DOMAIN transform)

\* C19, amended: the table has exactly the 15 codes si, is, ap, pa, lr, rl, hf,
\* hfsi, hfis, hfap, hfpa, hflr, hfrl, I and Z, and get succeeds for exactly those
C19_FifteenCodes ==
    /\ Cardinality(DOMAIN transform) = 15
    /\ DOMAIN transform = {"si", "is", "ap", "pa", "lr", "rl", "hf", "hfsi", "hfis",
                           "hfap", "hfpa", "hflr", "hfrl", "I", "Z"}
    /\ got.called => (~got.raised <=> got.order \in DOMAIN transform)

C19_Witness == got.called /\ got.order = "Z" /\ ~got.raised /\ got.returned /= <<>>

\* C20: the table is constant after construction: whatever the program does
\* with the transforms get returned, the mesh loop's Scale(1, -1, -1)
\* included, every transform of the table has the matrix it was built with
C20_TableConstant == transform = SliceOrderInit

(***************************************************************************)
(* Properties of the similarity comparator                                 *)
(***************************************************************************)
\* C9: are_polydata_similar is symmetric: it returns the same for (A, B, t)
\* and for (B, A, t), for all signatures A, B and all thresholds t.
C9_Symmetric ==
    similar /= <<>> => similar[1] = are_polydata_similar(sig2, sig1, threshold)

\* C10: similarity at a threshold implies similarity at every lower threshold.
C10_Monotone ==
    similar = <<TRUE>> =>
        \A t2 \in Thresholds :
            FGt(threshold, t2) => are_polydata_similar(sig1, sig2, t2)

\* C10 (witness): a pair similar at a threshold that has lower ones, and not
\* similar at a higher one
C10_Witness ==
    /\ similar = <<TRUE>>
    /\ \E t2 \in Thresholds : FGt(threshold, t2)
    /\ \E t3 \in Thresholds : FGt(t3, threshold) /\ ~are_polydata_similar(sig1, sig2, t3)


\* A signature with no points, no cells or no volume
ZeroMetric(sig) == sig.num_points = 0 \/ sig.num_cells = 0 \/ sig.volume[1] = 0

\* C11: a signature with zero points, zero cells or zero volume is similar to
\* no signature, itself included, at any threshold (0.0 included).
C11_ZeroMetricNeverSimilar ==
    (similar /= <<>> /\ (ZeroMetric(sig1) \/ ZeroMetric(sig2))) => similar = <<FALSE>>

\* C11 (witness): a flat surface with points and cells was compared with
\* itself at the threshold 0.0
C11_Witness ==
    /\ similar = <<FALSE>>
    /\ sig1 = sig2
    /\ sig1.num_points /= 0 /\ sig1.num_cells /= 0 /\ sig1.volume[1] = 0
    /\ threshold = Literal(0, 100)

\* max(0, 1 - center_distance / avg_extent) of two bounding boxes
CenterCloseness(bounds1, bounds2) ==
    LET Closeness(v) == IF FGt(v, FromInt(0)) THEN v ELSE FromInt(0)
    IN  CHOOSE f \in {Closeness(v) :
                v \in {FSub(FromInt(1),
                            FDiv(center_dist(center(bounds1), center(bounds2)),
                                 avg_size(bounds1, bounds2)))}} : TRUE

\* C12: for two signatures with all metrics nonzero, are_polydata_similar is
\* true if and only if min/max of the point counts, of the cell counts and of
\* the volumes are each >= the threshold and the center similarity
\* max(0, 1 - center_distance / avg_extent) is >= 0.95, whatever the threshold.
C12_SimilarIff ==
    (similar /= <<>> /\ ~ZeroMetric(sig1) /\ ~ZeroMetric(sig2)) =>
        (similar[1] <=>
            /\ FGe(RoundQuotient(Min(sig1.num_points, sig2.num_points),
                                 Max(sig1.num_points, sig2.num_points), 0), threshold)
            /\ FGe(RoundQuotient(Min(sig1.num_cells, sig2.num_cells),
                                 Max(sig1.num_cells, sig2.num_cells), 0), threshold)
            /\ FGe(FDiv(FMin(sig1.volume, sig2.volume), FMax(sig1.volume, sig2.volume)),
                   threshold)
            /\ FGe(CenterCloseness(sig1.bounds, sig2.bounds), Literal(95, 100)))

\* C12 (witness): at the threshold 0.0 two surfaces with nonzero metrics were
\* found not similar: the ratio tests are vacuous, the center bar applies
C12_Witness ==
    /\ similar = <<FALSE>>
    /\ threshold = Literal(0, 100)
    /\ ~ZeroMetric(sig1) /\ ~ZeroMetric(sig2)
\* C13: a reconstruction visits the labels 1, 2, ..., floor(scalar_max), each
\* once and in ascending order (none when scalar_max < 1); a label whose
\* iso-surface is empty is visited and gives no surface
C13_LabelsVisited ==
    run > 0 =>
        /\ \A i \in DOMAIN visited : visited[i] = i
        /\ IF image_data.scalar_max < 2 THEN visited = <<>>
           ELSE /\ 2 * Len(visited) <= image_data.scalar_max
                /\ image_data.scalar_max < 2 * Len(visited) + 2
        /\ \A label \in DOMAIN visited :
               image_data.surface[label] = EmptyPolyData => label \notin LabelsOf(segmentation_actors)

C13_Witness ==
    /\ run > 0
    /\ image_data.scalar_max = 2 * MaxLabel + 1
    /\ image_data.surface[1] = EmptyPolyData
    /\ visited = [i \in 1..MaxLabel |-> i]
    /\ LabelsOf(segmentation_actors) = 2..MaxLabel
\* The signature of the surface of a label
SignatureOf(label) == calculate_polydata_signature(image_data.surface[label])

\* The labels a run visited whose iso-surface has points
NonEmptyLabels == {label \in DOMAIN visited : image_data.surface[label].num_points /= 0}

\* C14: a non-empty surface is discarded exactly when its signature is similar,
\* at the caller's threshold, to that of a surface accepted earlier in the run;
\* only accepted signatures are recorded; two equal cubes whose centers are a
\* fifth of their edge apart are both kept
C14_DiscardedIffSimilar ==
    run > 0 =>
        /\ \A label \in NonEmptyLabels :
               label \notin LabelsOf(segmentation_actors) <=>
                   \E prev \in LabelsOf(segmentation_actors) :
                       /\ prev < label
                       /\ are_polydata_similar(SignatureOf(label), SignatureOf(prev),
                                               similarity_threshold)
        /\ processed_signatures =
               [i \in DOMAIN segmentation_actors |->
                   <<segmentation_actors[i]._label_value,
                     SignatureOf(segmentation_actors[i]._label_value)>>]
        /\ (/\ Len(visited) = 2
            /\ image_data.surface[1] = Solid(<<0, 5, 0, 5, 0, 5>>)
            /\ image_data.surface[2] = Solid(<<1, 6, 0, 5, 0, 5>>))
               => LabelsOf(segmentation_actors) = {1, 2}

C14_Witness ==
    /\ run > 0
    /\ similarity_threshold = DefaultThreshold
    /\ image_data.surface = <<Solid(<<0, 5, 0, 5, 0, 5>>), Solid(<<0, 5, 0, 5, 0, 5>>),
                              Solid(<<1, 6, 0, 5, 0, 5>>)>>
    /\ LabelsOf(segmentation_actors) = {1, 3}
\* C15: the surfaces a run returns have pairwise distinct labels, and each has
\* a nonzero point count, a nonzero cell count and a nonzero bounding-box volume
C15_ReturnedNonDegenerate ==
    run > 0 =>
        /\ \A i, j \in DOMAIN segmentation_actors :
               segmentation_actors[i]._label_value = segmentation_actors[j]._label_value => i = j
        /\ \A label \in LabelsOf(segmentation_actors) : ~ZeroMetric(SignatureOf(label))
\* The actors in the renderer that carry the attribute of the reconstruction
TaggedActors == {actor \in renderer : "_is_segmentation_3d" \in DOMAIN actor}

\* C16: after any number of runs on the same renderer, the tagged actors in
\* the renderer are exactly the actors the most recent run returned, one per
\* returned label and none of an earlier run
C16_OnlyLatestRun ==
    run > 0 =>
        /\ TaggedActors = {segmentation_actors[i] : i \in DOMAIN segmentation_actors}
        /\ \A actor \in TaggedActors : actor.run = run
        /\ Cardinality(TaggedActors) = Len(segmentation_actors)

C16_Witness ==
    /\ run = MaxRuns
    /\ Len(segmentation_actors) = MaxLabel
    /\ MeshActors \subseteq renderer
\* C18: a run with similarity_threshold = 0.0 returns one surface for every
\* label whose iso-surface is non-empty, discarding none as a duplicate
C18_ZeroThresholdKeepsAll ==
    (run > 0 /\ similarity_threshold = Literal(0, 100)) =>
        LabelsOf(segmentation_actors) = NonEmptyLabels
\* C17: after any key presses, reconstructed surfaces are in the renderer only
\* in mode 3: once an M press has left mode 3, none is left in the renderer
\* and the handler's list of segmentation actors is empty
C17_SurfacesOnlyInMode3 ==
    mode_state /= 3 => (TaggedActors = {} /\ segmentation_actors = <<>>)

C17_Witness ==
    /\ mode_state = 0
    /\ run > 0
    /\ processed_signatures /= <<>>
    /\ \E name \in DOMAIN sliders : ~sliders[name].enabled
    /\ \E P \in DOMAIN label_actors : label_actors[P]
\* C21: are_polydata_similar never divides by zero, a zero average extent
\* gives center_similarity 1.0, and center_similarity lies in [0, 1]
C21_NoZeroDivision ==
    /\ ~ZeroDivision(sig1, sig2)
    /\ similar /= <<>> => similar[1] \in BOOLEAN
    /\ \E cs \in {center_similarity(sig1.bounds, sig2.bounds)} :
        /\ FGe(cs, FromInt(0))
        /\ FGe(FromInt(1), cs)
        /\ avg_size(sig1.bounds, sig2.bounds)[1] = 0 => cs = FromInt(1)

C21_Witness ==
    /\ similar = <<FALSE>>
    /\ sig1.num_points = 1 /\ sig2.num_points = 1
    /\ sig1.bounds /= sig2.bounds
    /\ avg_size(sig1.bounds, sig2.bounds)[1] = 0

\* C26: when are_polydata_similar passes its three zero checks, avg_size is
\* not zero: center_similarity is computed by the division, never set to 1.0
C26_ConstantBranchUnreachable ==
    similar /= <<>> => center_similarity_branch(sig1, sig2) /= "constant"

C26_Witness ==
    /\ similar /= <<>>
    /\ center_similarity_branch(sig1, sig2) = "division"
    /\ sig1.bounds /= sig2.bounds
    /\ similar = <<TRUE>>
\* C22: every accepted surface carries the label that produced it; in mode 3
\* there is exactly one enabled slider for each returned surface, kept under
\* the surface's label and bound to the surface's property; in every other
\* mode there is no segmentation slider
C22_OneSliderPerSurface ==
    /\ mode_state = 3 =>
           /\ \A i \in DOMAIN segmentation_actors :
                  /\ segmentation_actors[i]._label_value = processed_signatures[i][1]
                  /\ processed_signatures[i][2] = SignatureOf(processed_signatures[i][1])
           /\ DOMAIN segmentation_sliders = LabelsOf(segmentation_actors)
           /\ Cardinality(DOMAIN segmentation_sliders) = Len(segmentation_actors)
           /\ \A i \in DOMAIN segmentation_actors :
                  \E sw \in {segmentation_sliders[segmentation_actors[i]._label_value]} :
                      sw.enabled /\ sw.property = segmentation_actors[i]
    /\ mode_state /= 3 => segmentation_sliders = <<>>

C22_Witness ==
    /\ mode_state = 3
    /\ LabelsOf(segmentation_actors) = {2, 3}
    /\ DOMAIN segmentation_sliders = {2, 3}
    /\ \E name \in PlaneSliders : ~sliders[name].enabled
(***************************************************************************)
(* Properties of the lookup of a tissue's file                             *)
(***************************************************************************)
\* The file of a tissue: the one named by the tissue's token
OwnFile(key) == VtkFile(TISSUE_TO_STEM[key])

\* C23: with one file per tissue in the dictionary, in any order, every tissue
\* resolves to the path of its own file; an unknown tissue, and a tissue no
\* stem of the dictionary has the token of, raise KeyError
C23_ResolvesOwnFile ==
    resolved /= <<>> =>
        \E key \in {lower(tissue_name)} :
            IF key \notin DOMAIN TISSUE_TO_STEM THEN resolved[1] = KeyError
            ELSE IF \A i \in DOMAIN vtk_map : ~Contains(vtk_map[i].stem, TISSUE_TO_STEM[key])
            THEN resolved[1] = KeyError
            ELSE vtk_map \in CompleteMaps => resolved[1] = ReturnedPath(OwnFile(key).path)

\* The state of a tissue mesh as main leaves it
InitialMesh(name) ==
    [visibility |-> TRUE, representation |-> "surface", opacity |-> params.opacity[name]]

\* C28: the modes cycle 0, 1, 2, 3, 0 on M, and after M pressed four times
\* and nothing else the mode is 0 again, every tissue mesh is visible, a
\* surface and at the opacity configured for the tissue, and every slider is
\* enabled as at the start
C28_CycleRoundTrip ==
    (mode_state = 0 /\ run > 0) =>
        /\ \A name \in DOMAIN mesh_actors_dict : mesh_actors_dict[name] = InitialMesh(name)
        /\ \A name \in DOMAIN sliders : sliders[name].enabled

\* C29: in mode 3 every slider of a tissue is disabled and every tissue mesh
\* is hidden, whatever keys were pressed
C29_TissueControlsOffInMode3 ==
    mode_state = 3 =>
        /\ \A name \in DOMAIN sliders \ PlaneSliders : ~sliders[name].enabled
        /\ \A name \in DOMAIN mesh_actors_dict : ~mesh_actors_dict[name].visibility

\* A plane left as it was made: the default reslice axes and origin, and a
\* placement of scale(1, -1, -1) alone
Unplaced(orientation) ==
    /\ gray[orientation].axes = NewReslice("gray").axes
    /\ gray[orientation].origin = NewReslice("gray").origin
    /\ xform[orientation] = Scale(NewTransform, 1, -1, -1)

\* C30: an orientation outside XY, XZ, YZ is rejected: neither engine makes
\* or updates an actor for it with the default reslice axes and a placement
\* of scale(1, -1, -1) alone
C30_UnknownOrientationRejected ==
    \A orientation \in DOMAIN xform \ Planes :
        ~([kind |-> "gray", plane |-> orientation] \in renderer /\ Unplaced(orientation))

(***************************************************************************)
(* Properties of the accepted surfaces during a run                        *)
(***************************************************************************)
\* The accumulators of the run after each label: the points of the run
PointsOfRun ==
    {LabelLoop(image_data, similarity_threshold, run, 1, last,
               [renderer |-> RemoveSegmentationActors(renderer),
                segmentation_actors |-> <<>>,
                processed_signatures |-> <<>>,
                visited |-> <<>>]) : last \in 0..Len(visited)}

\* No two of the recorded signatures are similar at the run's threshold
PairwiseNonSimilar(signatures) ==
    \A i, j \in DOMAIN signatures :
        i /= j => ~are_polydata_similar(signatures[i][2], signatures[j][2],
                                        similarity_threshold)

\* Every visited label with a surface is accepted, or similar to an accepted
\* surface of a smaller label
FirstOccurrenceWins(point) ==
    \A k \in DOMAIN point.visited :
        LET label == point.visited[k]
            accepted == {point.processed_signatures[i][1] :
                            i \in DOMAIN point.processed_signatures}
        IN  image_data.surface[label].num_points /= 0 =>
                \/ label \in accepted
                \/ \E i \in DOMAIN point.processed_signatures :
                       /\ point.processed_signatures[i][1] < label
                       /\ are_polydata_similar(SignatureOf(label),
                                               point.processed_signatures[i][2],
                                               similarity_threshold)

\* C25: at every point of a run the recorded signatures of the accepted
\* surfaces are pairwise non-similar at the run's threshold, and every visited
\* label with a non-empty surface is accepted or similar to an accepted
\* surface with a smaller label
C25_AcceptedPairwiseNonSimilar ==
    run > 0 =>
        /\ PairwiseNonSimilar(processed_signatures)
        /\ \A point \in PointsOfRun :
               /\ PairwiseNonSimilar(point.processed_signatures)
               /\ FirstOccurrenceWins(point)
====
